---- MODULE Spec2Model ----
(***************************************************************************)
(* Live fleet-tracking core of static/js/live-map-enhanced.js              *)
(* (class LiveMapManager): periodic fetch of the fleet snapshot, filter    *)
(* pipeline, stats, marker reconciliation, auto-refresh timer.             *)
(*                                                                         *)
(* JavaScript is single-threaded: every handler below runs to completion,  *)
(* the only suspension points are the two awaits of loadVehicles (fetch    *)
(* and response.json()).  No state is written between them, so a response  *)
(* is handled in one step (Respond).                                       *)
(***************************************************************************)
EXTENDS Integers, Sequences, FiniteSets, TLC

\* ---------------------------------------------------------------- bounds
MaxVehicles == 1    \* vehicle ids are 1..MaxVehicles; a snapshot holds each id at most once
MaxInFlight == 2    \* fetches that may be awaiting their response at once
MaxTimers   == 2    \* interval timers that may be active at once
MaxFleet    == 2    \* vehicles of a snapshot handed to the filter pipeline
MaxSubset   == 3    \* vehicles of a snapshot handed to the stats aggregator
MaxCourse   == 359  \* headings handed to the popup builders are 0..MaxCourse degrees
MaxElapsedMinutes == 3060  \* oldest lastUpdate handed to the popup builders
MaxPending  == 1    \* setTimeout callbacks of focusVehicle that may be pending at once
MaxIntervalId == 30 \* interval ids the browser hands out to TraccarFleet
MaxAccuracy == 25   \* accuracies handed to the popup builders, in tenths of a metre

\* ------------------------------------------------ optional (absent) values
None    == <<>>
Some(x) == <<x>>

\* `x || 0` on an optional number
OrZero(o) == IF o = None THEN 0 ELSE o[1]

\* JavaScript truthiness of an optional number: absent and 0 are falsy
Truthy(o) == o # None /\ o[1] # 0

\* ------------------------------------------------------- telemetry inputs
Variants == {"moving", "equator", "offline"}

\* one VehicleTelemetry record as delivered by /api/vehicles
VehicleOf(id, k) ==
    IF k = "moving" THEN
        [id |-> id, status |-> "online", speed |-> Some(40),
         latitude |-> Some(43), longitude |-> Some(11),
         groupId |-> Some(1), category |-> Some("car")]
    ELSE IF k = "equator" THEN
        [id |-> id, status |-> "online", speed |-> None,
         latitude |-> Some(0), longitude |-> Some(11),
         groupId |-> Some(2), category |-> Some("truck")]
    ELSE
        [id |-> id, status |-> "offline", speed |-> Some(90),
         latitude |-> None, longitude |-> None,
         groupId |-> None, category |-> None]

VehiclePool == { VehicleOf(id, k) : id \in 1..MaxVehicles, k \in Variants }

\* response arrays: every id at most once (ids are unique within a snapshot)
Bodies ==
    { s \in UNION { [1..n -> VehiclePool] : n \in 0..MaxVehicles } :
        \A i, j \in 1..Len(s) : i # j => s[i].id # s[j].id }

StatusFilters   == {"all", "active", "stopped"}
GroupChoices    == {"", "1"}
CategoryChoices == {"", "car"}

\* what a fetch can come back with, in the order loadVehicles tests it
Outcomes == {"network", "http", "parse", "null", "error", "object", "array"}

\* ------------------------------------------------------------------ state
VARIABLES
    allVehicles,      \* this.allVehicles: [arr |-> is it iterable, items |-> records]
    currentFilter,    \* this.currentFilter
    selectedGroup,    \* this.selectedGroup
    selectedCategory, \* this.selectedCategory
    vehicleMarkers,   \* this.vehicleMarkers: vehicle id -> marker
    fitBounds,        \* positions map.fitBounds was asked to fit by the last reconciliation
    vehicleList,      \* #vehicleList: [view, ids]
    subtitleText,     \* #subtitleText: vehicle count
    stats,            \* #totalVehicles, #movingVehicles, #avgSpeed
    lastUpdate,       \* #lastUpdate relative to the wall clock: "unset", "now", "past"
    updateInterval,   \* this.updateInterval
    activeTimers,     \* interval timers the browser still fires
    inflight,         \* loadVehicles calls awaiting their response, oldest first
    markerObj,        \* identity of the Leaflet marker stored under each key of vehicleMarkers
    mapLayers,        \* the markers that are layers of this.map
    fitOptions,       \* options of the map.fitBounds call of the last reconciliation
    centered,         \* history: markers map.setView was centred on, with the time since
    mapView,          \* centre and zoom of the last map.setView call
    openedPopup,      \* the marker openPopup() was last called on
    timeouts,         \* pending setTimeout callbacks of focusVehicle, oldest first
    popup,            \* what the last createVehiclePopup call was given and returned
    refreshTimer,     \* TraccarFleet.refreshTimer
    fleetIntervals,   \* intervals of TraccarFleet the browser still fires
    nextIntervalId,   \* the id the next setInterval call returns
    last              \* history: the handler that ran last

vars == <<allVehicles, currentFilter, selectedGroup, selectedCategory,
          vehicleMarkers, fitBounds, vehicleList, subtitleText, stats,
          lastUpdate, updateInterval, activeTimers, inflight,
          markerObj, mapLayers, fitOptions, centered, mapView, openedPopup,
          timeouts, popup, refreshTimer, fleetIntervals, nextIntervalId, last>>

criteria == <<currentFilter, selectedGroup, selectedCategory>>
surface  == <<markerObj, mapLayers, fitOptions, centered>>
views    == <<vehicleMarkers, fitBounds, vehicleList, subtitleText, stats,
             surface>>
focus    == <<mapView, openedPopup, timeouts>>
timers   == <<updateInterval, activeTimers>>
fleet    == <<refreshTimer, fleetIntervals, nextIntervalId>>
liveMap  == <<allVehicles, criteria, views, lastUpdate, timers, inflight,
             focus, popup>>

\* -------------------------------------------------------- pure functions
getVehicleStatus_SpeedFirst(v) ==
    IF OrZero(v.speed) > 0 THEN "active"
    ELSE IF v.status = "offline" THEN "offline"
    ELSE "stopped"

getVehicleStatus(v) ==
    IF v.status = "offline" THEN "offline"
    ELSE IF v.status = "online" /\ OrZero(v.speed) > 0 THEN "active"
    ELSE "stopped"

\* value of a <select> option as a number (the == of applyFilters converts it)
ToNumber(s) == IF s = "1" THEN 1 ELSE IF s = "2" THEN 2 ELSE 0

\* v.groupId == this.selectedGroup
LooseEq(groupId, sel) == groupId # None /\ groupId[1] = ToNumber(sel)

StatusStage_NoAll(s, cf) ==
    IF cf = "active" THEN
        SelectSeq(s, LAMBDA v : v.status = "online" /\ OrZero(v.speed) > 0)
    ELSE
        SelectSeq(s, LAMBDA v : v.status = "offline" \/ OrZero(v.speed) = 0)

StatusStage(s, cf) ==
    IF cf = "active" THEN
        SelectSeq(s, LAMBDA v : v.status = "online" /\ OrZero(v.speed) > 0)
    ELSE IF cf = "stopped" THEN
        SelectSeq(s, LAMBDA v : v.status = "offline" \/ OrZero(v.speed) = 0)
    ELSE s

GroupStage_Strict(s, sg) == IF sg # "" THEN << >> ELSE s

GroupStage(s, sg) ==
    IF sg # "" THEN SelectSeq(s, LAMBDA v : LooseEq(v.groupId, sg)) ELSE s

CategoryStage(s, sc) ==
    IF sc # "" THEN SelectSeq(s, LAMBDA v : v.category = Some(sc)) ELSE s

\* the subset applyFilters hands to the list, the markers and the stats
Filtered(items, cf, sg, sc) ==
    CategoryStage(GroupStage(StatusStage(items, cf), sg), sc)

Ids(s) == [i \in 1..Len(s) |-> s[i].id]

RECURSIVE SumSpeed(_)
SumSpeed(s) == IF s = <<>> THEN 0 ELSE OrZero(Head(s).speed) + SumSpeed(Tail(s))

RoundDiv_Floor(a, b) == a \div b

\* Math.round of a non-negative quotient
RoundDiv(a, b) == (2 * a + b) \div (2 * b)

updateStats_MovingBySpeed(vehicles) ==
    LET movingVehicles == SelectSeq(vehicles, LAMBDA v : OrZero(v.speed) > 0)
    IN  Some([total    |-> Len(vehicles),
              moving   |-> Len(movingVehicles),
              avgSpeed |-> IF Len(movingVehicles) > 0
                           THEN RoundDiv(SumSpeed(movingVehicles), Len(movingVehicles))
                           ELSE 0])

updateStats(vehicles) ==
    LET moving == SelectSeq(vehicles,
                      LAMBDA v : v.status = "online" /\ OrZero(v.speed) > 0)
        movingVehicles == SelectSeq(vehicles, LAMBDA v : OrZero(v.speed) > 0)
    IN  Some([total    |-> Len(vehicles),
              moving   |-> Len(moving),
              avgSpeed |-> IF Len(movingVehicles) > 0
                           THEN RoundDiv(SumSpeed(movingVehicles), Len(movingVehicles))
                           ELSE 0])

updateVehicleList_EmptyAsError(vehicles) ==
    IF Len(vehicles) = 0 THEN [view |-> "error", ids |-> << >>]
    ELSE [view |-> "cards", ids |-> Ids(vehicles)]

updateVehicleList(vehicles) ==
    IF Len(vehicles) = 0 THEN [view |-> "empty", ids |-> <<>>]
    ELSE [view |-> "cards", ids |-> Ids(vehicles)]

\* the subtitle is written after the cards, not on the early return
updateSubtitle(vehicles, old) ==
    IF Len(vehicles) = 0 THEN old ELSE Some(Len(vehicles))

\* the guard of updateMapMarkers: `v.latitude && v.longitude`
HasMarker(v) == Truthy(v.latitude) /\ Truthy(v.longitude)

updateMapMarkers(vehicles) ==
    LET idx == { i \in 1..Len(vehicles) : HasMarker(vehicles[i]) }
        keys == { vehicles[i].id : i \in idx }
        lastOf(k) == CHOOSE i \in idx :
                        /\ vehicles[i].id = k
                        /\ \A j \in idx : vehicles[j].id = k => j <= i
    IN  [k \in keys |->
            [latlng |-> <<vehicles[lastOf(k)].latitude[1], vehicles[lastOf(k)].longitude[1]>>,
             status |-> getVehicleStatus(vehicles[lastOf(k)])]]

\* the bounds handed to map.fitBounds; {} when the call is skipped
updateFitBounds(markers) == { markers[k].latlng : k \in DOMAIN markers }

\* options of the fitBounds call; None when the call is skipped
FitPadding == 50
FitMaxZoom == 16

updateFitOptions(markers) ==
    IF DOMAIN markers # {}
    THEN Some([padding |-> <<FitPadding, FitPadding>>, maxZoom |-> FitMaxZoom])
    ELSE None

Range(f) == { f[k] : k \in DOMAIN f }

\* the first n marker identities from `from` on that are not in used
RECURSIVE FreeSerials(_, _, _)
FreeSerials(used, n, from) ==
    IF n = 0 THEN << >>
    ELSE IF from \in used THEN FreeSerials(used, n, from + 1)
    ELSE <<from>> \o FreeSerials(used, n - 1, from + 1)

\* the markers L.circleMarker(...) creates for keys: objects distinct from
\* each other and from every object of used (an object nothing refers to
\* any more leaves its identity to a new one)
NewMarkers(keys, used) ==
    LET free == FreeSerials(used, Cardinality(keys), 1)
    IN  [k \in keys |-> free[Cardinality({ j \in keys : j <= k })]]

showError == [view |-> "error", ids |-> <<>>]

\* ---------------------------------------------------------------- history
Event(op) == [op |-> op, outcome |-> "-", stale |-> FALSE, afterStop |-> FALSE]

\* ------------------------------------------------------------------- Init
\* state once the constructor has run: init() started the interval timer
\* and loadInitialData() is awaiting the first fetch
Init ==
    /\ allVehicles = [arr |-> TRUE, items |-> <<>>]
    /\ currentFilter = "all"
    /\ selectedGroup = ""
    /\ selectedCategory = ""
    /\ vehicleMarkers = << >>
    /\ fitBounds = {}
    /\ vehicleList = [view |-> "initial", ids |-> <<>>]
    /\ subtitleText = None
    /\ stats = None
    /\ lastUpdate = "unset"
    /\ updateInterval = Some(1)
    /\ activeTimers = {1}
    /\ inflight = << [origin |-> "loadInitialData", stale |-> FALSE, afterStop |-> FALSE] >>
    /\ markerObj = << >>
    /\ mapLayers = {}
    /\ fitOptions = None
    /\ centered = {}
    /\ mapView = None
    /\ openedPopup = None
    /\ timeouts = << >>
    /\ popup = None
    /\ refreshTimer = Some(1)
    /\ fleetIntervals = {1}
    /\ nextIntervalId = 2
    /\ last = Event("init")

\* ---------------------------------------------------------------- actions
\* the markers a pending setTimeout callback of focusVehicle holds
Captured == { timeouts[i].marker : i \in DOMAIN timeouts }

\* the marker objects something still refers to once updateMapMarkers has
\* removed the stored markers from the map and emptied vehicleMarkers
Referenced ==
    (mapLayers \ Range(markerObj)) \cup Captured
        \cup (IF openedPopup = None THEN {} ELSE {openedPopup[1]})

\* applyFilters() on an iterable snapshot; updateMapMarkers removes every
\* stored marker from the map and adds the new ones
ApplyFilters(all, cf, sg, sc) ==
    LET filtered == Filtered(all.items, cf, sg, sc)
        markers  == updateMapMarkers(filtered)
        objects  == NewMarkers(DOMAIN markers, Referenced)
    IN  /\ vehicleList' = updateVehicleList(filtered)
        /\ subtitleText' = updateSubtitle(filtered, subtitleText)
        /\ vehicleMarkers' = markers
        /\ markerObj' = objects
        /\ mapLayers' = (mapLayers \ Range(markerObj)) \cup Range(objects)
        /\ fitBounds' = updateFitBounds(markers)
        /\ fitOptions' = updateFitOptions(markers)
        /\ centered' = { e \in centered : e.marker \in Captured }
        /\ stats' = updateStats(filtered)

\* applyFilters() called from an event handler; `[...this.allVehicles]`
\* throws on a snapshot that is not iterable, before anything is written
ApplyFiltersOrThrow(cf, sg, sc) ==
    IF allVehicles.arr THEN ApplyFilters(allVehicles, cf, sg, sc)
    ELSE UNCHANGED views

\* loadVehicles() up to its first await; origin is the caller,
\* loadInitialData() or a direct call (timer, "Riprova" button)
loadVehicles(origin) ==
    /\ Len(inflight) < MaxInFlight
    /\ inflight' = Append(inflight,
                     [origin |-> origin, stale |-> FALSE, afterStop |-> FALSE])

\* a timer callback that gives up once the error view is shown
TimerFire_QuietAfterError ==
    /\ activeTimers # {}
    /\ vehicleList.view # "error"
    /\ Len(inflight) < MaxInFlight
    /\ inflight' = Append(inflight, [origin |-> "loadVehicles",
                                      stale |-> FALSE, afterStop |-> FALSE])
    /\ lastUpdate' = IF lastUpdate = "now" THEN "past" ELSE lastUpdate
    /\ last' = Event("tick")
    /\ UNCHANGED <<allVehicles, criteria, views, timers, popup, focus, fleet>>

\* a tick of an active interval timer, one period after it was set or last
\* fired: the wall clock is past whatever time #lastUpdate shows
TimerFire ==
    /\ activeTimers # {}
    /\ loadVehicles("loadVehicles")
    /\ lastUpdate' = IF lastUpdate = "now" THEN "past" ELSE lastUpdate
    /\ last' = Event("tick")
    /\ UNCHANGED <<allVehicles, criteria, views, timers, popup, focus, fleet>>

\* the "Riprova" button of the error view
Retry ==
    /\ vehicleList.view = "error"
    /\ loadVehicles("loadVehicles")
    /\ last' = Event("retry")
    /\ UNCHANGED <<allVehicles, criteria, views, lastUpdate, timers, popup, focus, fleet>>

\* loadVehicles without the `if (vehicles.error)` test
ThrowsBeforeAssign_NoErrorTest(outcome) ==
    outcome \in {"network", "http", "parse", "null"}

\* outcomes on which loadVehicles throws before `this.allVehicles = vehicles`:
\* fetch rejects, !response.ok, response.json() rejects, `null.error` is a
\* TypeError, vehicles.error is set
ThrowsBeforeAssign(outcome) ==
    outcome \in {"network", "http", "parse", "null", "error"}

\* what `this.allVehicles = vehicles` stores: the array, or a JSON value
\* without an error field that is not iterable
Assigned(outcome, body) ==
    IF outcome = "array" THEN [arr |-> TRUE, items |-> body]
    ELSE [arr |-> FALSE, items |-> <<>>]

\* loadVehicles() from its first await to its end, for the i-th pending call;
\* a call made by loadInitialData() continues with updateLastUpdateTime()
Respond(i, outcome, body) ==
    LET req == inflight[i]
        snapshot == Assigned(outcome, body)
    IN  /\ IF ThrowsBeforeAssign(outcome)
           THEN /\ vehicleList' = showError
                /\ UNCHANGED <<allVehicles, vehicleMarkers, fitBounds,
                               subtitleText, stats, surface>>
           ELSE /\ allVehicles' = snapshot
                /\ IF snapshot.arr
                   THEN ApplyFilters(snapshot, currentFilter, selectedGroup,
                                     selectedCategory)
                   ELSE /\ vehicleList' = showError
                        /\ UNCHANGED <<vehicleMarkers, fitBounds,
                                       subtitleText, stats, surface>>
        /\ lastUpdate' = IF req.origin = "loadInitialData" THEN "now" ELSE lastUpdate
        /\ inflight' =
             [j \in 1..(Len(inflight) - 1) |->
                IF j < i
                THEN [inflight[j] EXCEPT
                        !.stale = inflight[j].stale \/ outcome = "array"]
                ELSE inflight[j + 1]]
        /\ last' = [op |-> "respond", outcome |-> outcome,
                    stale |-> req.stale, afterStop |-> req.afterStop]
        /\ UNCHANGED <<criteria, timers, popup, focus, fleet>>

\* filterVehicles(filter)
FilterVehicles(f) ==
    /\ currentFilter' = f
    /\ ApplyFiltersOrThrow(f, selectedGroup, selectedCategory)
    /\ last' = Event("filter")
    /\ UNCHANGED <<allVehicles, selectedGroup, selectedCategory, lastUpdate,
                   timers, inflight, popup, focus, fleet>>

\* change listener of #groupFilter
GroupChange(g) ==
    /\ g # selectedGroup
    /\ selectedGroup' = g
    /\ ApplyFiltersOrThrow(currentFilter, g, selectedCategory)
    /\ last' = Event("group")
    /\ UNCHANGED <<allVehicles, currentFilter, selectedCategory, lastUpdate,
                   timers, inflight, popup, focus, fleet>>

\* change listener of #categoryFilter
CategoryChange(c) ==
    /\ c # selectedCategory
    /\ selectedCategory' = c
    /\ ApplyFiltersOrThrow(currentFilter, selectedGroup, c)
    /\ last' = Event("category")
    /\ UNCHANGED <<allVehicles, currentFilter, selectedGroup, lastUpdate,
                   timers, inflight, popup, focus, fleet>>

\* handle returned by setInterval: one no live timer and no field holds
NewTimer ==
    CHOOSE t \in 1..(MaxTimers + 1) :
        t \notin activeTimers /\ Some(t) # updateInterval

startAutoRefresh ==
    /\ Cardinality(activeTimers) < MaxTimers
    /\ activeTimers' = activeTimers \cup {NewTimer}
    /\ updateInterval' = Some(NewTimer)
    /\ last' = Event("start")
    /\ UNCHANGED <<allVehicles, criteria, views, lastUpdate, inflight, popup, focus, fleet>>

stopAutoRefresh ==
    /\ activeTimers' = IF updateInterval # None
                       THEN activeTimers \ {updateInterval[1]}
                       ELSE activeTimers
    /\ inflight' = [j \in 1..Len(inflight) |->
                      [inflight[j] EXCEPT !.afterStop = TRUE]]
    /\ last' = Event("stop")
    /\ UNCHANGED <<allVehicles, criteria, views, lastUpdate, updateInterval,
                   popup, focus, fleet>>

\* ---------------------------------------------------------- popup content
\* a rendered template string: its fixed text and the numbers put into it
Text(tpl, a, b) == [tpl |-> tpl, a |-> a, b |-> b]

directions == <<"N", "NE", "E", "SE", "S", "SW", "W", "NW">>

\* getDirectionText of LiveMapManager.createVehiclePopup
getDirectionText(course) ==
    IF ~Truthy(course) THEN "N/D"
    ELSE directions[(RoundDiv(course[1], 45) % 8) + 1]

\* getDirectionText of the createVehiclePopup of vehicle-popup.js
popupDirectionText(course) ==
    IF ~Truthy(course) THEN "N/D"
    ELSE directions[(RoundDiv(course[1], 45) % 8) + 1]

\* getTimeAgo with the hour bucket starting one minute late
getTimeAgo_LateHour(sinceUpdate) ==
    IF sinceUpdate = None THEN Text("N/A", 0, 0)
    ELSE LET diffMinutes == sinceUpdate[1] \div 60000
         IN  IF diffMinutes < 1 THEN Text("Ora", 0, 0)
             ELSE IF diffMinutes <= 60 THEN Text("min fa", diffMinutes, 0)
             ELSE IF diffMinutes < 1440
                  THEN Text("h m fa", diffMinutes \div 60, diffMinutes % 60)
             ELSE Text("giorni fa", diffMinutes \div 1440, 0)

\* LiveMapManager.getTimeAgo; sinceUpdate is `now - lastUpdateDate` in
\* milliseconds, None when vehicle.lastUpdate is missing
getTimeAgo(sinceUpdate) ==
    IF sinceUpdate = None THEN Text("N/A", 0, 0)
    ELSE LET diffMinutes == sinceUpdate[1] \div 60000
         IN  IF diffMinutes < 1 THEN Text("Ora", 0, 0)
             ELSE IF diffMinutes < 60 THEN Text("min fa", diffMinutes, 0)
             ELSE IF diffMinutes < 1440
                  THEN Text("h m fa", diffMinutes \div 60, diffMinutes % 60)
             ELSE Text("giorni fa", diffMinutes \div 1440, 0)

\* timeAgo of the createVehiclePopup of vehicle-popup.js: starts as '' and is
\* only filled in when vehicle.lastUpdate is present
popupTimeAgo(sinceUpdate) ==
    IF sinceUpdate = None THEN Text("", 0, 0)
    ELSE LET diffMinutes == sinceUpdate[1] \div 60000
         IN  IF diffMinutes < 1 THEN Text("Ora", 0, 0)
             ELSE IF diffMinutes < 60 THEN Text("min fa", diffMinutes, 0)
             ELSE IF diffMinutes < 1440
                  THEN Text("h m fa", diffMinutes \div 60, diffMinutes % 60)
             ELSE Text("giorni fa", diffMinutes \div 1440, 0)

\* `vehicle.latitude?.toFixed(6) || 'N/A'`, the same line in both builders;
\* toFixed never returns the empty string
formatCoordinate(x) ==
    IF x = None THEN Text("N/A", 0, 0) ELSE Text("toFixed(6)", x[1], 0)

\* `vehicle.latest_position || vehicle`
positionOf(vehicle) ==
    IF vehicle.latest_position # None THEN vehicle.latest_position[1]
    ELSE [accuracy |-> vehicle.accuracy]

\* `pos.accuracy ? ±${Math.round(pos.accuracy)}m : 'N/D'`, the same line in
\* both builders; accuracies are in tenths of a metre
formatAccuracy(pos) ==
    IF Truthy(pos.accuracy) THEN Text("±m", RoundDiv(pos.accuracy[1], 10), 0)
    ELSE Text("N/D", 0, 0)

Builders == {"LiveMapManager", "vehicle-popup.js"}

\* the derived fields of the popup either builder returns for a vehicle
createVehiclePopup(builder, vehicle) ==
    [builder   |-> builder,
     vehicle   |-> vehicle,
     direction |-> IF builder = "LiveMapManager"
                   THEN getDirectionText(vehicle.course)
                   ELSE popupDirectionText(vehicle.course),
     timeAgo   |-> IF builder = "LiveMapManager"
                   THEN getTimeAgo(vehicle.sinceUpdate)
                   ELSE popupTimeAgo(vehicle.sinceUpdate),
     coordinates |-> <<formatCoordinate(vehicle.latitude),
                       formatCoordinate(vehicle.longitude)>>,
     accuracy  |-> formatAccuracy(positionOf(vehicle))]

\* the fields of a vehicle record that the derived popup fields read
PopupVehicle(course, sinceUpdate, latitude, longitude, accuracy, latest) ==
    [course |-> course, sinceUpdate |-> sinceUpdate,
     latitude |-> latitude, longitude |-> longitude,
     accuracy |-> accuracy, latest_position |-> latest]

\* vehicles handed to the popup builders: every heading, every age of
\* lastUpdate at the start and at the end of each whole minute, present and
\* absent coordinates, and every accuracy, on the vehicle itself or on its
\* latest_position
PopupVehicles ==
    { PopupVehicle(c, None, None, None, None, None) :
        c \in {None} \cup { Some(d) : d \in 0..MaxCourse } }
    \cup
    { PopupVehicle(None, Some(m * 60000 + r), None, None, None, None) :
        m \in (-1)..MaxElapsedMinutes, r \in {0, 59999} }
    \cup
    { PopupVehicle(None, None, lat, lon, None, None) :
        lat \in {None, Some(0), Some(43)}, lon \in {None, Some(11)} }
    \cup
    { PopupVehicle(None, None, Some(43), Some(11), a, None) :
        a \in { Some(t) : t \in 0..MaxAccuracy } }
    \cup
    { PopupVehicle(None, None, Some(43), Some(11), None,
                   Some([accuracy |-> a])) :
        a \in {None} \cup { Some(t) : t \in 0..MaxAccuracy } }

\* a popup is opened while none is shown: Leaflet calls the function given
\* to bindPopup
OpenPopup(builder, vehicle) ==
    /\ popup = None
    /\ popup' = Some(createVehiclePopup(builder, vehicle))
    /\ last' = Event("popup")
    /\ UNCHANGED <<allVehicles, criteria, views, lastUpdate, timers, inflight, focus, fleet>>

\* the popup is closed with its close button; its content is dropped
ClosePopup ==
    /\ popup # None
    /\ popup' = None
    /\ last' = Event("closePopup")
    /\ UNCHANGED <<allVehicles, criteria, views, lastUpdate, timers, inflight, focus, fleet>>

\* ------------------------------------------------------------- focus
FocusZoom   == 16
SettleDelay == 300

\* the time the model lets pass in one step
HalfDelay == SettleDelay \div 2

\* ids of the vehicle cards that call liveMap.focusVehicle
FocusIds == {1, 2}

\* focusVehicle with a setTimeout of no delay
FocusVehicle_NoDelay(vehicleId) ==
    /\ Len(timeouts) < MaxPending
    /\ IF vehicleId \in DOMAIN markerObj
       THEN /\ mapView' = Some([center |-> vehicleMarkers[vehicleId].latlng,
                                zoom |-> FocusZoom])
            /\ timeouts' = Append(timeouts, [marker |-> markerObj[vehicleId],
                                             age |-> SettleDelay])
            /\ centered' = centered \cup
                              {[marker |-> markerObj[vehicleId], age |-> 0]}
       ELSE UNCHANGED <<mapView, timeouts, centered>>
    /\ last' = Event("focus")
    /\ UNCHANGED <<allVehicles, criteria, vehicleMarkers, fitBounds,
                   vehicleList, subtitleText, stats, markerObj, mapLayers,
                   fitOptions, lastUpdate, timers, inflight, openedPopup,
                   popup, fleet>>

\* focusVehicle(vehicleId): when the vehicle has a marker, map.setView on its
\* position and a setTimeout of SettleDelay ms that keeps the marker
FocusVehicle(vehicleId) ==
    /\ Len(timeouts) < MaxPending
    /\ IF vehicleId \in DOMAIN markerObj
       THEN /\ mapView' = Some([center |-> vehicleMarkers[vehicleId].latlng,
                                zoom |-> FocusZoom])
            /\ timeouts' = Append(timeouts, [marker |-> markerObj[vehicleId],
                                             age |-> 0])
            /\ centered' = centered \cup
                              {[marker |-> markerObj[vehicleId], age |-> 0]}
       ELSE UNCHANGED <<mapView, timeouts, centered>>
    /\ last' = Event("focus")
    /\ UNCHANGED <<allVehicles, criteria, vehicleMarkers, fitBounds,
                   vehicleList, subtitleText, stats, markerObj, mapLayers,
                   fitOptions, lastUpdate, timers, inflight, openedPopup,
                   popup, fleet>>

\* age a after HalfDelay more milliseconds; ages stop counting at SettleDelay
Older(a) == IF a + HalfDelay >= SettleDelay THEN SettleDelay ELSE a + HalfDelay

\* HalfDelay milliseconds pass while no handler runs
Advance ==
    /\ \/ \E i \in DOMAIN timeouts : timeouts[i].age < SettleDelay
       \/ \E e \in centered : e.age < SettleDelay
    /\ timeouts' = [i \in DOMAIN timeouts |->
                      [timeouts[i] EXCEPT !.age = Older(@)]]
    /\ centered' = { [e EXCEPT !.age = Older(@)] : e \in centered }
    /\ last' = Event("advance")
    /\ UNCHANGED <<allVehicles, criteria, vehicleMarkers, fitBounds,
                   vehicleList, subtitleText, stats, markerObj, mapLayers,
                   fitOptions, lastUpdate, timers, inflight, mapView,
                   openedPopup, popup, fleet>>

\* the oldest setTimeout callback runs once its delay is over:
\* marker.openPopup() on the marker focusVehicle found
Settle ==
    /\ timeouts # << >>
    /\ Head(timeouts).age >= SettleDelay
    /\ openedPopup' = Some(Head(timeouts).marker)
    /\ timeouts' = Tail(timeouts)
    /\ centered' = { e \in centered :
                       e.marker \in Range(markerObj)
                           \cup { timeouts[i].marker : i \in DOMAIN timeouts } }
    /\ last' = Event("settle")
    /\ UNCHANGED <<allVehicles, criteria, vehicleMarkers, fitBounds,
                   vehicleList, subtitleText, stats, markerObj, mapLayers,
                   fitOptions, lastUpdate, timers, inflight, mapView,
                   popup, fleet>>

\* ------------------------------------------------------- TraccarFleet
\* TraccarFleet.startAutoRefresh without the clearInterval of the old timer
FleetStart_NoClear ==
    /\ nextIntervalId <= MaxIntervalId
    /\ fleetIntervals' = fleetIntervals \cup {nextIntervalId}
    /\ refreshTimer' = Some(nextIntervalId)
    /\ nextIntervalId' = nextIntervalId + 1

\* TraccarFleet.startAutoRefresh: clears the interval refreshTimer holds,
\* then stores the id of a new one; interval ids are positive, so truthy
FleetStart ==
    /\ nextIntervalId <= MaxIntervalId
    /\ fleetIntervals' =
          (IF Truthy(refreshTimer) THEN fleetIntervals \ {refreshTimer[1]}
           ELSE fleetIntervals) \cup {nextIntervalId}
    /\ refreshTimer' = Some(nextIntervalId)
    /\ nextIntervalId' = nextIntervalId + 1

\* TraccarFleet.stopAutoRefresh
FleetStop ==
    /\ fleetIntervals' = IF Truthy(refreshTimer)
                         THEN fleetIntervals \ {refreshTimer[1]}
                         ELSE fleetIntervals
    /\ refreshTimer' = None
    /\ UNCHANGED nextIntervalId

\* a call of TraccarFleet.startAutoRefresh() by a page script
FleetStartAutoRefresh ==
    /\ FleetStart
    /\ last' = Event("fleetStart")
    /\ UNCHANGED liveMap

\* a call of TraccarFleet.stopAutoRefresh() by a page script
FleetStopAutoRefresh ==
    /\ FleetStop
    /\ last' = Event("fleetStop")
    /\ UNCHANGED liveMap

\* listener of the window's online event
Online ==
    /\ FleetStart
    /\ last' = Event("online")
    /\ UNCHANGED liveMap

\* listener of the window's offline event
Offline ==
    /\ FleetStop
    /\ last' = Event("offline")
    /\ UNCHANGED liveMap

\* an interval of TraccarFleet fires: refreshLiveData() asks the server for
\* the dashboard data of the page
RefreshLiveData ==
    /\ fleetIntervals # {}
    /\ last' = Event("refreshLiveData")
    /\ UNCHANGED <<liveMap, fleet>>

\* ------------------------------------------------------ specifications
\* a response to any pending loadVehicles call, bodies drawn from B
Responses(B) ==
    \E i \in 1..Len(inflight), outcome \in Outcomes :
        \E body \in (IF outcome = "array" THEN B ELSE {<<>>}) :
            Respond(i, outcome, body)

\* The page as the repository wires it: the constructor (Init), the interval
\* timer, the responses of /api/vehicles, the filter controls and the
\* "Riprova" button.  Nothing in the repository calls startAutoRefresh or
\* stopAutoRefresh after the constructor.
Next ==
    \/ TimerFire
    \/ Retry
    \/ Responses(Bodies)
    \/ \E f \in StatusFilters : FilterVehicles(f)
    \/ \E g \in GroupChoices : GroupChange(g)
    \/ \E c \in CategoryChoices : CategoryChange(c)

Spec == Init /\ [][Next]_vars

\* The refresh API driven by an embedding script: startAutoRefresh and
\* stopAutoRefresh are called at any time; the filter controls are left
\* alone and the server answers with an empty fleet or one moving vehicle.
RefreshBodies == { <<>>, << VehicleOf(1, "moving") >> }

NextRefresh ==
    \/ TimerFire
    \/ Retry
    \/ Responses(RefreshBodies)
    \/ startAutoRefresh
    \/ stopAutoRefresh

SpecRefresh == Init /\ [][NextRefresh]_vars

\* The browser fires an active interval timer again and again, and every
\* fetch settles (resolves or rejects) in the end.
LiveRefresh ==
    /\ SpecRefresh
    /\ SF_vars(TimerFire)
    /\ \A i \in 1..MaxInFlight :
         WF_vars(\E outcome \in Outcomes :
                   \E body \in (IF outcome = "array" THEN RefreshBodies ELSE {<<>>}) :
                      i <= Len(inflight) /\ Respond(i, outcome, body))

\* the i-th record of a response array, ids numbered by position
Numbered(f) ==
    [i \in 1..Len(f) |->
        [id |-> i, status |-> f[i][1], speed |-> f[i][2],
         latitude |-> Some(42 + i), longitude |-> Some(11),
         groupId |-> f[i][3], category |-> f[i][4]]]

\* response arrays of at most n records with their fields drawn from P
Fleets(P, n) == { Numbered(f) : f \in UNION { [1..k -> P] : k \in 0..n } }

\* state once the response to loadInitialData has been handled and was the
\* array s: Init followed by Respond(1, "array", s)
Loaded(s) ==
    /\ allVehicles = [arr |-> TRUE, items |-> s]
    /\ currentFilter = "all"
    /\ selectedGroup = ""
    /\ selectedCategory = ""
    /\ vehicleMarkers = updateMapMarkers(s)
    /\ fitBounds = updateFitBounds(updateMapMarkers(s))
    /\ vehicleList = updateVehicleList(s)
    /\ subtitleText = updateSubtitle(s, None)
    /\ stats = updateStats(s)
    /\ lastUpdate = "now"
    /\ updateInterval = Some(1)
    /\ activeTimers = {1}
    /\ inflight = << >>
    /\ markerObj = NewMarkers(DOMAIN updateMapMarkers(s), {})
    /\ mapLayers = Range(NewMarkers(DOMAIN updateMapMarkers(s), {}))
    /\ fitOptions = updateFitOptions(updateMapMarkers(s))
    /\ centered = {}
    /\ mapView = None
    /\ openedPopup = None
    /\ timeouts = << >>
    /\ popup = None
    /\ refreshTimer = Some(1)
    /\ fleetIntervals = {1}
    /\ nextIntervalId = 2
    /\ last = [op |-> "respond", outcome |-> "array",
               stale |-> FALSE, afterStop |-> FALSE]

\* The filter pipeline applied to every fleet whose records combine a raw
\* status and speed with a group and a category; any status reported by the
\* tracking server besides online and offline is "unknown".
FilterFleets ==
    Fleets({ <<st[1], st[2], g, c>> :
                st \in { <<"online", Some(40)>>, <<"online", Some(0)>>,
                         <<"offline", Some(40)>>, <<"unknown", Some(40)>> },
                g \in { Some(1), None },
                c \in { Some("car"), Some("truck") } },
           MaxFleet)

InitFilter == \E s \in FilterFleets : Loaded(s)

NextFilter ==
    \/ \E f \in StatusFilters : FilterVehicles(f)
    \/ \E g \in GroupChoices : GroupChange(g)
    \/ \E c \in CategoryChoices : CategoryChange(c)

SpecFilter == InitFilter /\ [][NextFilter]_vars

\* The classifier and the stats aggregator applied to every fleet of raw
\* statuses and speeds, unfiltered and under each status filter.
StatsFleets ==
    Fleets({ <<st, sp, Some(1), Some("car")>> :
                st \in {"online", "offline", "unknown"},
                sp \in { None, Some(0), Some(40), Some(45) } },
           MaxSubset)

InitStats == \E s \in StatsFleets : Loaded(s)

NextStats == \E f \in StatusFilters : FilterVehicles(f)

SpecStats == InitStats /\ [][NextStats]_vars

\* The popup builders applied to every vehicle of PopupVehicles.
NextPopup ==
    \/ \E builder \in Builders, vehicle \in PopupVehicles :
          OpenPopup(builder, vehicle)
    \/ ClosePopup

SpecPopup == Init /\ [][NextPopup]_vars

\* The live map with up to two vehicles while the user clicks vehicle
\* cards: focusVehicle and its delayed callback interleave with the refresh
\* timer, the responses and the status filter.  The server answers each
\* refresh before the timer fires again.
FocusBodies ==
    { << >>,
      << VehicleOf(1, "moving") >>,
      << VehicleOf(1, "moving"), VehicleOf(2, "moving") >> }

InitFocus == \E s \in FocusBodies : Loaded(s)

NextFocus ==
    \/ \E vehicleId \in FocusIds : FocusVehicle(vehicleId)
    \/ Advance
    \/ Settle
    \/ (inflight = << >> /\ TimerFire)
    \/ Responses(FocusBodies)
    \/ \E f \in StatusFilters : FilterVehicles(f)

SpecFocus == InitFocus /\ [][NextFocus]_vars

\* TraccarFleet as app.js wires it: init() has started the auto-refresh;
\* scripts call startAutoRefresh and stopAutoRefresh, the browser goes
\* offline and online and fires the interval.
NextFleet ==
    \/ FleetStartAutoRefresh
    \/ FleetStopAutoRefresh
    \/ Online
    \/ Offline
    \/ RefreshLiveData

SpecFleet == Init /\ [][NextFleet]_vars

TypeOK ==
    /\ allVehicles.arr \in BOOLEAN
    /\ currentFilter \in StatusFilters
    /\ Len(inflight) <= MaxInFlight
    /\ Cardinality(activeTimers) <= MaxTimers
    /\ lastUpdate \in {"unset", "now", "past"}

\* ----------------------------------------------------------- properties
CriteriaOps == {"filter", "group", "category"}

\* the handler that ran last went through updateMapMarkers
Reconciled ==
    \/ last.op = "respond" /\ last.outcome = "array"
    \/ last.op \in CriteriaOps /\ allVehicles.arr

\* the subset the current criteria select from the current snapshot
CurrentSubset ==
    Filtered(allVehicles.items, currentFilter, selectedGroup, selectedCategory)

\* list, markers and stats are the ones computed from the current subset
ViewsCurrent ==
    /\ allVehicles.arr
    /\ vehicleList = updateVehicleList(CurrentSubset)
    /\ vehicleMarkers = updateMapMarkers(CurrentSubset)
    /\ stats = updateStats(CurrentSubset)

\* C1: after every reconciliation the keys of vehicleMarkers are exactly the
\* ids of the vehicles of the filtered subset that have both a latitude and
\* a longitude, whatever their numeric value.
MarkerSetInvariant ==
    Reconciled =>
        DOMAIN vehicleMarkers =
            { CurrentSubset[i].id : i \in
                { j \in 1..Len(CurrentSubset) :
                    /\ CurrentSubset[j].latitude # None
                    /\ CurrentSubset[j].longitude # None } }

\* C2: at most one fetch is in flight at any time.
SingleFetchInFlight == Len(inflight) <= 1

\* C3: the response of a request that is older than one whose response has
\* already been applied never changes the snapshot.
StaleResponseDiscarded ==
    [][(last'.op = "respond" /\ last'.stale) => allVehicles' = allVehicles]_vars

\* C4: the response of a fetch that was in flight when stopAutoRefresh was
\* called changes neither the snapshot, the markers, the list nor the stats.
ResponseAfterStopIgnored ==
    [][(last'.op = "respond" /\ last'.afterStop) =>
          UNCHANGED <<allVehicles, vehicleMarkers, vehicleList, stats>>]_vars

\* C5: when stopAutoRefresh returns, no interval timer is active.
StopCancelsTimer == last.op = "stop" => activeTimers = {}

\* C6: a failed fetch of any kind leaves allVehicles as it was and shows the
\* error view.
FailedFetchKeepsSnapshot ==
    [][(last'.op = "respond" /\ last'.outcome # "array") =>
          (allVehicles' = allVehicles /\ vehicleList'.view = "error")]_vars

\* C7: a 200 response whose body carries an error indicator is a failure
\* (snapshot kept, markers and stats not recomputed, error view shown); an
\* empty array is a success with no vehicles (empty snapshot, "no results"
\* view, no markers, all counters 0).
ErrorBodyIsFailure ==
    [][/\ (last'.op = "respond" /\ last'.outcome = "error") =>
            /\ allVehicles' = allVehicles
            /\ UNCHANGED <<vehicleMarkers, fitBounds, subtitleText, stats>>
            /\ vehicleList'.view = "error"
       /\ (last'.op = "respond" /\ last'.outcome = "array"
             /\ allVehicles'.items = <<>>) =>
            /\ allVehicles'.arr
            /\ vehicleList'.view = "empty"
            /\ DOMAIN vehicleMarkers' = {}
            /\ stats' = Some([total |-> 0, moving |-> 0, avgSpeed |-> 0])]_vars

\* C7 witness: an error body has been answered while a vehicle was on the map
ErrorBodyAnswered ==
    /\ last.op = "respond" /\ last.outcome = "error"
    /\ allVehicles.items # <<>>
    /\ DOMAIN vehicleMarkers # {}

\* C8: once a successful fetch has been handled, the snapshot is an array,
\* list, markers and stats are those of the current criteria, and the
\* last-refreshed time is the current time.
SuccessUpdatesTimestamp ==
    (last.op = "respond" /\ last.outcome = "array") =>
        (ViewsCurrent /\ lastUpdate = "now")

\* C9: a change of the status, group or category criterion leaves the
\* snapshot alone, starts no fetch, and leaves list, markers and stats
\* computed from the existing snapshot under the new criteria.
FilterChangeRecomputes ==
    [][(last'.op \in CriteriaOps) =>
          /\ allVehicles' = allVehicles
          /\ inflight' = inflight
          /\ ViewsCurrent']_vars

\* C10: whenever a fetch has failed and a timer is active, a timer tick
\* starts a new fetch later on (unless the timer is stopped first).
RetryableForever ==
    (last.op = "respond" /\ last.outcome # "array" /\ activeTimers # {})
        ~> (last.op = "tick" \/ activeTimers = {})

\* C10 witness: a tick has started a fetch while the error view is shown
TickAfterFailure ==
    /\ last.op = "tick"
    /\ vehicleList.view = "error"
    /\ Len(inflight) > 0

\* the compass bucket of a heading of c degrees: the k with
\* 45k - 22.5 <= c < 45k + 22.5, taken modulo 8
Bucket(c) ==
    LET k == CHOOSE n \in 0..((MaxCourse + 1) \div 45 + 1) :
                 90 * n - 45 <= 2 * c /\ 2 * c < 90 * n + 45
    IN  directions[(k % 8) + 1]

\* C18: the direction of a popup is 'N/D' when course is absent and the
\* compass bucket round(course / 45) mod 8 for every present course, 0 included.
DirectionBucket ==
    popup # None =>
        LET c == popup[1].vehicle.course
        IN  popup[1].direction = IF c = None THEN "N/D" ELSE Bucket(c[1])

\* C19: the direction is 'N' for course 0, 'N' for course 44, 'E' for course
\* 90 and 'N/D' for an absent course.
DirectionExamples ==
    popup # None =>
        LET c == popup[1].vehicle.course
            d == popup[1].direction
        IN  /\ c = Some(0) => d = "N"
            /\ c = Some(44) => d = "N"
            /\ c = Some(90) => d = "E"
            /\ c = None => d = "N/D"

\* C20: for m whole minutes since lastUpdate the elapsed time reads 'Ora' for
\* m < 1, 'm min fa' for 1 <= m < 60, 'floor(m/60)h (m mod 60)m fa' for
\* 60 <= m < 1440 and 'floor(m/1440) giorni fa' from 1440 on; exactly one of
\* the four applies.
TimeAgoBuckets ==
    (popup # None /\ popup[1].vehicle.sinceUpdate # None) =>
        LET t == popup[1].timeAgo
            m == CHOOSE n \in (-1)..(MaxElapsedMinutes + 1) :
                    /\ n * 60000 <= popup[1].vehicle.sinceUpdate[1]
                    /\ popup[1].vehicle.sinceUpdate[1] < (n + 1) * 60000
        IN  /\ m < 1 <=> t = Text("Ora", 0, 0)
            /\ (1 <= m /\ m < 60) <=> t = Text("min fa", m, 0)
            /\ (60 <= m /\ m < 1440) <=>
                  (\E h \in 1..23, r \in 0..59 :
                      m = 60 * h + r /\ t = Text("h m fa", h, r))
            /\ m >= 1440 <=>
                  (\E d \in 1..(m \div 1440) :
                      /\ 1440 * d <= m /\ m < 1440 * (d + 1)
                      /\ t = Text("giorni fa", d, 0))
            /\ m = 0 => t = Text("Ora", 0, 0)
            /\ m = 45 => t = Text("min fa", 45, 0)
            /\ m = 90 => t = Text("h m fa", 1, 30)
            /\ m = 3060 => t = Text("giorni fa", 2, 0)

\* C20 witness: a popup for a vehicle last updated 2 days and 3 hours ago
TwoDaysAgoShown ==
    /\ popup # None
    /\ popup[1].vehicle.sinceUpdate = Some(3060 * 60000)
    /\ popup[1].timeAgo = Text("giorni fa", 2, 0)

\* the record behind the marker keyed k, where ids number the snapshot
MarkedVehicle(k) == allVehicles.items[k]

\* a speed as the spec reads it: a missing speed is 0
SpeedOf(v) == IF v.speed = None THEN 0 ELSE v.speed[1]

\* C11: every record gets exactly one of offline/active/stopped; offline
\* whenever its status is offline whatever its speed, active iff its status is
\* online and its speed > 0, stopped otherwise, a missing speed counting as 0;
\* two records equal in status and speed get the same class whatever their
\* other fields.
ClassifierTotal ==
    \A k \in DOMAIN vehicleMarkers :
        LET v == MarkedVehicle(k)
            c == vehicleMarkers[k].status
        IN  /\ c \in {"offline", "active", "stopped"}
            /\ v.status = "offline" => c = "offline"
            /\ c = "active" <=> (v.status = "online" /\ SpeedOf(v) > 0)
            /\ c = "stopped" <=>
                  (v.status # "offline" /\ ~(v.status = "online" /\ SpeedOf(v) > 0))
            /\ \A j \in DOMAIN vehicleMarkers :
                  (MarkedVehicle(j).status = v.status
                      /\ SpeedOf(MarkedVehicle(j)) = SpeedOf(v))
                  => vehicleMarkers[j].status = c

\* C11 witness: an offline vehicle reporting a speed is drawn as offline next
\* to an online vehicle without a speed drawn as stopped
OfflineDespiteSpeed ==
    \E k, j \in DOMAIN vehicleMarkers :
        /\ last.op = "filter"
        /\ currentFilter = "stopped"
        /\ MarkedVehicle(k).status = "offline"
        /\ MarkedVehicle(k).speed = Some(45)
        /\ vehicleMarkers[k].status = "offline"
        /\ MarkedVehicle(j).status = "online"
        /\ MarkedVehicle(j).speed = None
        /\ vehicleMarkers[j].status = "stopped"

\* the records of the snapshot that the classifier puts in one of classes
Classified(classes) ==
    SelectSeq(allVehicles.items, LAMBDA v : getVehicleStatus(v) \in classes)

StatsAgreeWithClassifier ==
    stats # None =>
        /\ stats[1].moving =
              Cardinality({ k \in DOMAIN vehicleMarkers :
                              vehicleMarkers[k].status = "active" })
        /\ stats[1].total = Len(CurrentSubset)
        /\ stats[1].total = Len(vehicleList.ids)

\* C15 witness: one of two listed vehicles is moving, the other is offline
\* while reporting a speed
OneOfTwoMoving ==
    /\ last.op = "filter"
    /\ stats = Some([total |-> 2, moving |-> 1, avgSpeed |-> 43])
    /\ \E k \in DOMAIN vehicleMarkers :
          /\ vehicleMarkers[k].status = "offline"
          /\ MarkedVehicle(k).speed = Some(45)

\* the records of s with speed > 0
WithSpeed(s) == SelectSeq(s, LAMBDA v : SpeedOf(v) > 0)

RECURSIVE TotalSpeed(_)
TotalSpeed(s) == IF s = << >> THEN 0 ELSE SpeedOf(Head(s)) + TotalSpeed(Tail(s))

\* the snapshot {offline, online speed 0, online speed 40}
ScenarioSnapshot ==
    /\ Len(allVehicles.items) = 3
    /\ allVehicles.items[1].status = "offline"
    /\ allVehicles.items[1].speed = None
    /\ allVehicles.items[2].status = "online"
    /\ allVehicles.items[2].speed = Some(0)
    /\ allVehicles.items[3].status = "online"
    /\ allVehicles.items[3].speed = Some(40)

\* C16: avgSpeed is within one half of the mean speed of the records of the
\* subset with speed > 0, and 0 when there is none; the unfiltered snapshot
\* {offline, online speed 0, online speed 40} shows total 3, moving 1,
\* average 40.
MeanSpeedRounded ==
    stats # None =>
        LET n   == Len(WithSpeed(CurrentSubset))
            sum == TotalSpeed(WithSpeed(CurrentSubset))
            a   == stats[1].avgSpeed
        IN  /\ n = 0 => a = 0
            /\ n > 0 => (2 * n * a - n <= 2 * sum /\ 2 * sum <= 2 * n * a + n)
            /\ (ScenarioSnapshot /\ currentFilter = "all") =>
                  stats = Some([total |-> 3, moving |-> 1, avgSpeed |-> 40])

\* C16 witness: three vehicles at 40, 40 and 45 average 41.67, shown as 42
MeanRoundedUp ==
    /\ last.op = "filter"
    /\ Len(CurrentSubset) = 3
    /\ TotalSpeed(WithSpeed(CurrentSubset)) = 125
    /\ stats # None
    /\ stats[1].avgSpeed = 42

\* v satisfies every predicate that is set
Keeps(v) ==
    /\ currentFilter = "active" => (v.status = "online" /\ SpeedOf(v) > 0)
    /\ currentFilter = "stopped" => (v.status = "offline" \/ SpeedOf(v) = 0)
    /\ selectedGroup # "" =>
          (v.groupId # None /\ v.groupId[1] = ToNumber(selectedGroup))
    /\ selectedCategory # "" =>
          (v.category # None /\ v.category[1] = selectedCategory)

\* C13: the listed subset is the one obtained by applying the status, group
\* and category predicates in each of the six orders, and is exactly the
\* records that satisfy every predicate that is set.
FilterOrderInvariant ==
    LET s   == allVehicles.items
        ids == vehicleList.ids
        S(x) == StatusStage(x, currentFilter)
        G(x) == GroupStage(x, selectedGroup)
        C(x) == CategoryStage(x, selectedCategory)
    IN  Reconciled =>
            /\ ids = Ids(C(G(S(s))))
            /\ ids = Ids(G(C(S(s))))
            /\ ids = Ids(C(S(G(s))))
            /\ ids = Ids(S(C(G(s))))
            /\ ids = Ids(G(S(C(s))))
            /\ ids = Ids(S(G(C(s))))
            /\ ids = Ids(SelectSeq(s, Keeps))

\* C13 witness: all three criteria are set and keep one vehicle of two
AllCriteriaKeepOne ==
    /\ last.op = "category"
    /\ currentFilter = "active"
    /\ selectedGroup = "1"
    /\ selectedCategory = "car"
    /\ Len(allVehicles.items) = 2
    /\ Len(vehicleList.ids) = 1

\* C14: with status filter 'all', no group and no category the listed subset
\* is the whole snapshot, and under any criteria the listed subset is a
\* subsequence of the snapshot in the snapshot's order.
IdentityAndOrder ==
    LET s   == allVehicles.items
        ids == vehicleList.ids
    IN  Reconciled =>
            /\ (currentFilter = "all" /\ selectedGroup = ""
                   /\ selectedCategory = "") => ids = Ids(s)
            /\ \E f \in [1..Len(ids) -> 1..Len(s)] :
                  /\ \A i \in 1..Len(ids) : s[f[i]].id = ids[i]
                  /\ \A i, j \in 1..Len(ids) : i < j => f[i] < f[j]

\* C14 witness: the criteria were cleared again and both vehicles are listed
CriteriaCleared ==
    /\ last.op = "group"
    /\ currentFilter = "all"
    /\ selectedGroup = ""
    /\ selectedCategory = ""
    /\ Len(allVehicles.items) = 2
    /\ vehicleList.ids = <<1, 2>>

\* C17: the list turns to the error state only when a fetch has failed, shows
\* 'no results' only while the filtered subset of the current snapshot is
\* empty, and an empty filtered subset is rendered as 'no results', never as
\* the error state.
NoResultsIsNotError ==
    [][ /\ (vehicleList'.view = "error" /\ vehicleList.view # "error") =>
              (last'.op = "respond" /\ last'.outcome # "array")
        /\ vehicleList'.view = "empty" =>
              (allVehicles'.arr /\ CurrentSubset' = << >>)
        /\ (Reconciled' /\ CurrentSubset' = << >>) =>
              vehicleList'.view = "empty" ]_vars

\* C17 witness: a filter change leaves no vehicle of a non-empty snapshot
NothingMatches ==
    /\ last.op \in CriteriaOps
    /\ allVehicles.arr
    /\ allVehicles.items # << >>
    /\ CurrentSubset = << >>
    /\ vehicleList.view = "empty"

\* C21: for a vehicle without lastUpdate, course, coordinates and accuracy,
\* each builder returns a popup that shows 'N/A' as elapsed time, 'N/D' as
\* direction, 'N/A' for both coordinates and 'N/D' as accuracy.
MissingFieldsPlaceholders ==
    (popup # None
        /\ popup[1].vehicle = PopupVehicle(None, None, None, None, None, None))
    => /\ popup[1].timeAgo = Text("N/A", 0, 0)
       /\ popup[1].direction = "N/D"
       /\ popup[1].coordinates = <<Text("N/A", 0, 0), Text("N/A", 0, 0)>>
       /\ popup[1].accuracy = Text("N/D", 0, 0)

\* C22: a popup shows the accuracy of its position as '±<nearest integer>m'
\* whenever the accuracy is present, 0 included, and as 'N/D' only when it
\* is absent.
AccuracyShown ==
    popup # None =>
        LET a == positionOf(popup[1].vehicle).accuracy
            t == popup[1].accuracy
        IN  /\ a # None =>
                  (/\ t.tpl = "±m"
                   /\ 10 * t.a - 5 <= a[1]
                   /\ a[1] <= 10 * t.a + 5)
            /\ t = Text("N/D", 0, 0) => a = None

\* C26: between handlers the markers, and the stats counters once they have
\* been written, are those derived from the current snapshot under the
\* current criteria, and a failed fetch changes neither.
MarkersAndStatsFollowSnapshot ==
    [][ /\ allVehicles'.arr
        /\ vehicleMarkers' = updateMapMarkers(CurrentSubset')
        /\ stats' # None => stats' = updateStats(CurrentSubset')
        /\ (last'.op = "respond" /\ last'.outcome # "array") =>
              UNCHANGED <<vehicleMarkers, stats>> ]_vars

\* C27: after every applyFilters run the subtitle shows the number of
\* vehicles of the subset the list displays, 0 for the empty subset.
SubtitleCountsSubset ==
    Reconciled => subtitleText = Some(Len(vehicleList.ids))

\* C28: the last-refreshed time changes to the current time only when a
\* fetch has succeeded; a failed fetch, the initial one included, leaves it
\* as it was.
TimestampOnlyOnSuccess ==
    [][ /\ (lastUpdate' = "now" /\ lastUpdate # "now") =>
              (last'.op = "respond" /\ last'.outcome = "array")
        /\ (last'.op = "respond" /\ last'.outcome # "array") =>
              lastUpdate' = lastUpdate ]_vars

\* C30: whenever the moving counter is 0 the average speed is 0.
NoMovingNoAverage ==
    stats # None => (stats[1].moving = 0 => stats[1].avgSpeed = 0)

\* C29: TraccarFleet never has more than one interval active, and right
\* after stopAutoRefresh or an offline event it has none and refreshTimer is
\* null; it stays so until a startAutoRefresh or an online event.
FleetSingleInterval ==
    [][ /\ Cardinality(fleetIntervals') <= 1
        /\ last'.op \in {"fleetStop", "offline"} =>
              (fleetIntervals' = {} /\ refreshTimer' = None)
        /\ (fleetIntervals = {} /\ refreshTimer = None
               /\ last'.op \notin {"fleetStart", "online"}) =>
              (fleetIntervals' = {} /\ refreshTimer' = None) ]_vars

\* C29 witness: two more intervals have been started since init(), the
\* last one by an online event, and only that one is active
OnlineTwice ==
    /\ last.op = "online"
    /\ nextIntervalId = 4
    /\ refreshTimer = Some(3)
    /\ fleetIntervals = {3}

\* C23: focusVehicle on a vehicle with a marker asks for centre-and-zoom on
\* the marker's position and opens no popup itself; openPopup is called only
\* by the delayed callback, on a marker centre-and-zoom was asked for at
\* least the settle delay earlier.
FocusThenPopup ==
    [][ /\ \A vehicleId \in FocusIds :
              (FocusVehicle(vehicleId) /\ vehicleId \in DOMAIN vehicleMarkers) =>
                  /\ mapView' = Some([center |-> vehicleMarkers[vehicleId].latlng,
                                      zoom |-> FocusZoom])
                  /\ openedPopup' = openedPopup
                  /\ timeouts'[Len(timeouts')] =
                        [marker |-> markerObj[vehicleId], age |-> 0]
        /\ (openedPopup' # openedPopup \/ last'.op = "settle") =>
              /\ last'.op = "settle"
              /\ openedPopup' # None
              /\ \E e \in centered :
                    e.marker = openedPopup'[1] /\ e.age >= SettleDelay ]_vars

\* C23 witness: the delayed callback has opened the popup of the marker the
\* map was centred on
PopupAfterSettle ==
    /\ last.op = "settle"
    /\ mapView # None
    /\ openedPopup # None
    /\ openedPopup[1] \in Range(markerObj)
    /\ \E k \in DOMAIN markerObj :
          markerObj[k] = openedPopup[1]
              /\ mapView[1].center = vehicleMarkers[k].latlng

\* C24: after every reconciliation the markers on the map are exactly the
\* stored ones, one for each record of the new subset that has both
\* coordinates, none of them left from the previous cycle, and fitBounds
\* has been asked with padding 50 and maxZoom 16 iff there is a marker.
FullReplaceNoOrphans ==
    [][ Reconciled' =>
          LET mappable == { i \in 1..Len(CurrentSubset') :
                              /\ CurrentSubset'[i].latitude # None
                              /\ CurrentSubset'[i].longitude # None }
          IN  /\ mapLayers' = Range(markerObj')
              /\ DOMAIN markerObj' = DOMAIN vehicleMarkers'
              /\ DOMAIN vehicleMarkers' = { CurrentSubset'[i].id : i \in mappable }
              /\ Cardinality(mapLayers') = Cardinality(mappable)
              /\ mapLayers' \cap Captured = {}
              /\ (fitBounds' # {}) <=> (mapLayers' # {})
              /\ IF mapLayers' # {}
                 THEN /\ fitOptions' = Some([padding |-> <<50, 50>>, maxZoom |-> 16])
                      /\ fitBounds' = { vehicleMarkers'[k].latlng :
                                          k \in DOMAIN vehicleMarkers' }
                 ELSE fitOptions' = None ]_vars

\* C25: whenever the delayed callback of focusVehicle calls openPopup, the
\* marker it calls it on is one of the markers stored in vehicleMarkers.
PopupOnCurrentMarker ==
    [][ last'.op = "settle" => openedPopup'[1] \in Range(markerObj') ]_vars

====
